---- MODULE Spec2Model ----
(***************************************************************************)
(* Model of insurancemonte.py: validate_parameters and                     *)
(* run_monte_carlo_simulation.                                             *)
(*                                                                         *)
(* Floats are modelled as records [nan, v]: either NaN or an exact         *)
(* fixed-point number v/10 (tenths).  Comparisons with NaN are false and   *)
(* arithmetic with NaN yields NaN, as in IEEE-754 / Python.  Infinities    *)
(* and rounding are not modelled.                                          *)
(*                                                                         *)
(* The global generator np.random is modelled as a stream of raw draws     *)
(* with a read position; the stream is extended lazily by nondeterministic *)
(* choice, and reseeding with the same seed rewinds the position to 0.     *)
(***************************************************************************)
EXTENDS Integers, Sequences, FiniteSets, TLC

\* ------------------------------------------------------------------ bounds
MaxSims == 2
MaxClaims == 2

\* ------------------------------------------------------------------ floats
F(x) == [nan |-> FALSE, v |-> x]
NaN == [nan |-> TRUE, v |-> 0]
Zero == F(0)
One == F(10)

FLt(a, b) == ~a.nan /\ ~b.nan /\ a.v < b.v
FLe(a, b) == ~a.nan /\ ~b.nan /\ a.v <= b.v
FAdd(a, b) == IF a.nan \/ b.nan THEN NaN ELSE F(a.v + b.v)
FSub(a, b) == IF a.nan \/ b.nan THEN NaN ELSE F(a.v - b.v)
FMul(a, b) == IF a.nan \/ b.nan THEN NaN ELSE F((a.v * b.v) \div One.v)

\* a sum that takes the first sample only
FSumFirstOnly(s) == IF s = <<>> THEN Zero ELSE FAdd(Zero, s[1])
RECURSIVE FSum(_)
\* Python's sum(): 0 + s[1] + s[2] + ...
FSum(s) == IF s = <<>> THEN Zero
           ELSE FAdd(FSum(SubSeq(s, 1, Len(s) - 1)), s[Len(s)])

\* ------------------------------------------------------------ input domains
FreqRates == {NaN, F(-1), Zero, F(20)}
Premiums == {NaN, F(-10), Zero, F(30)}
Rates == {NaN, F(-1), Zero, F(5), One, F(15)}
Sigmas == {F(-8), F(8)}
NumSims == -1 .. MaxSims
\* raw variates the generator can produce for a lognormal sample (tenths)
SeverityRaw == {5, 400}
\* raw variates the generator can produce for a Poisson draw
PoissonRaw == 0 .. MaxClaims

\* --------------------------------------------------------------- exceptions
NoExc == [type |-> "none", msg |-> "", cause |-> "none"]
ValueError(m) == [type |-> "ValueError", msg |-> m, cause |-> "none"]

MsgFreq == "Frequency rate must be non-negative"
MsgPrem == "Premiums must be positive"
MsgInvest == "Investment return rate must be between 0 and 1"
MsgExp == "Expense rate must be between 0 and 1"
MsgLam == "lam < 0 or lam is NaN"
MsgDomain == "Domain error in arguments"

\* validate_parameters: the exception it raises, or NoExc when it returns
validate_parameters(freq_rate, prem, invest_return, exp_rate) ==
    IF FLt(freq_rate, Zero) THEN ValueError(MsgFreq)
    ELSE IF FLe(prem, Zero) THEN ValueError(MsgPrem)
    ELSE IF ~(FLe(Zero, invest_return) /\ FLe(invest_return, One))
         THEN ValueError(MsgInvest)
    ELSE IF ~(FLe(Zero, exp_rate) /\ FLe(exp_rate, One))
         THEN ValueError(MsgExp)
    ELSE NoExc

\* np.random.poisson(lam) raises ValueError unless lam >= 0
PoissonRejects(lam) == ~FLe(Zero, lam)
\* lognorm(s=sigma, ...).rvs(...) raises ValueError unless s > 0
LognormRejects(s) == ~FLt(Zero, s)

\* a Poisson draw that ignores the rate
PoissonOfAnyRate(lam, u) == u
\* np.random.poisson(lam) for a raw variate u: a rate of 0 always yields 0
PoissonOf(lam, u) == IF lam = Zero THEN 0 ELSE u
\* a lognormal sample exp(Normal(mu, sigma)) for a raw variate u
SeverityOf(u) == F(u)

\* an except clause that would `raise SimulationError(...) from e`
ReraiseWrapped(e) == [type |-> "SimulationError", msg |-> e.msg, cause |-> e.type]
\* `except Exception as e: ...; raise` re-raises e itself
Reraise(e) == e

\* a list that outlives the call
NewResultsKept(previous) == previous
\* `results = []`: a fresh list in every call, whatever an earlier call left
NewResults(previous) == <<>>

\* the claims added instead of subtracted
NetOutcomeOfPlus(prem, income, total, exps) ==
    FSub(FAdd(FAdd(prem, income), total), exps)
\* net_outcome = prem + investment_income - total_claims - expenses
NetOutcomeOf(prem, income, total, exps) ==
    FSub(FSub(FAdd(prem, income), total), exps)

\* a loop that runs one iteration too many
LoopContinuesInclusive(done, num_simulations) == done <= num_simulations
\* `for _ in range(num_simulations)`: is there an iteration after `done` of them?
LoopContinues(done, num_simulations) == done < num_simulations

\* ------------------------------------------------------------------- state
VARIABLES
    params,             \* the arguments of the call
    pc,                 \* position in run_monte_carlo_simulation
    i,                  \* iterations of the for loop completed
    results,            \* the local list
    num_claims, total_claims, investment_income, expenses, net_outcome,
    ret,                \* the returned array, if any
    exc,                \* the exception that left the call, if any
    log,                \* levels of the records logged
    rng,                \* generator: [stream, pos]
    run,                \* 1: first call, 2: call repeated after reseeding
    first,              \* how the first call ended
    trace,              \* history: one record per trial appended
    calls               \* history: calls made by the current call

vars == <<params, pc, i, results, num_claims, total_claims, investment_income,
          expenses, net_outcome, ret, exc, log, rng, run, first, trace, calls>>

locals == <<num_claims, total_claims, investment_income, expenses, net_outcome>>

NoRet == [returned |-> FALSE, value |-> <<>>]
NoCalls == [validate |-> 0, poisson |-> 0, rvs |-> 0, failed |-> "none"]
Pending == [pc |-> "entry", ret |-> NoRet, exc |-> NoExc]

Init ==
    /\ params \in [num_simulations : NumSims, freq_rate : FreqRates,
                   sigma_severity : Sigmas, prem : Premiums,
                   invest_return : Rates, exp_rate : Rates]
    /\ pc = "entry"
    /\ i = 0
    /\ results = <<>>
    /\ num_claims = 0
    /\ total_claims = Zero
    /\ investment_income = Zero
    /\ expenses = Zero
    /\ net_outcome = Zero
    /\ ret = NoRet
    /\ exc = NoExc
    /\ log = <<>>
    /\ rng = [stream |-> <<>>, pos |-> 0]
    /\ run = 1
    /\ first = Pending
    /\ trace = <<>>
    /\ calls = NoCalls

\* The streams the generator can have after handing out k more values:
\* values already in the stream are replayed, missing ones are fresh.
Extended(k, domain) ==
    LET have == Len(rng.stream) - rng.pos
        need == IF k > have THEN k - have ELSE 0
    IN {rng.stream \o ext : ext \in [1 .. need -> domain]}

\* an except clause that swallows the error and carries on
ExceptClauseSwallows(e) ==
    /\ log' = Append(log, "ERROR")
    /\ exc' = NoExc
    /\ pc' = "loop"
    /\ ret' = NoRet

\* an except clause that hands back the outcomes collected so far
ExceptClauseSalvages(e) ==
    /\ log' = Append(log, "ERROR")
    /\ exc' = NoExc
    /\ pc' = "returned"
    /\ ret' = [returned |-> TRUE, value |-> results]

\* The except clause of run_monte_carlo_simulation (lines 62-64):
\* log the error and re-raise; nothing is returned.
ExceptClause(e) ==
    /\ log' = Append(log, "ERROR")
    /\ exc' = Reraise(e)
    /\ pc' = "raised"
    /\ ret' = NoRet

\* lines 51-52: validate_parameters(...), then results = []
Validate ==
    /\ pc = "entry"
    /\ LET e == validate_parameters(params.freq_rate, params.prem,
                                    params.invest_return, params.exp_rate)
       IN IF e # NoExc
          THEN /\ ExceptClause(e)
               /\ calls' = [calls EXCEPT !.validate = @ + 1,
                                         !.failed = "validate"]
               /\ UNCHANGED results
          ELSE /\ log' = Append(log, "INFO")
               /\ results' = NewResults(results)
               /\ pc' = "loop"
               /\ calls' = [calls EXCEPT !.validate = @ + 1]
               /\ UNCHANGED <<exc, ret>>
    /\ UNCHANGED <<params, i, locals, rng, run, first, trace>>

\* lines 53-54: another iteration; num_claims = np.random.poisson(freq_rate)
DrawPoisson ==
    /\ pc = "loop"
    /\ LoopContinues(i, params.num_simulations)
    /\ IF PoissonRejects(params.freq_rate)
       THEN /\ ExceptClause(ValueError(MsgLam))
            /\ calls' = [calls EXCEPT !.poisson = @ + 1, !.failed = "poisson"]
            /\ UNCHANGED <<num_claims, rng>>
       ELSE /\ \E s \in Extended(1, PoissonRaw) :
                 /\ rng' = [stream |-> s, pos |-> rng.pos + 1]
                 /\ num_claims' = PoissonOf(params.freq_rate, s[rng.pos + 1])
            /\ pc' = "claims"
            /\ calls' = [calls EXCEPT !.poisson = @ + 1]
            /\ UNCHANGED <<exc, ret, log>>
    /\ UNCHANGED <<params, i, results, total_claims, investment_income,
                   expenses, net_outcome, run, first, trace>>

\* lines 55-56: total_claims = sum(lognorm(...).rvs(num_claims))
\*              if num_claims > 0 else 0
DrawSeverity ==
    /\ pc = "claims"
    /\ IF num_claims > 0
       THEN IF LognormRejects(params.sigma_severity)
            THEN /\ ExceptClause(ValueError(MsgDomain))
                 /\ calls' = [calls EXCEPT !.rvs = @ + 1, !.failed = "rvs"]
                 /\ UNCHANGED <<total_claims, rng, trace>>
            ELSE /\ \E s \in Extended(num_claims, SeverityRaw) :
                      LET samples == [k \in 1 .. num_claims |->
                                        SeverityOf(s[rng.pos + k])]
                      IN /\ rng' = [stream |-> s, pos |-> rng.pos + num_claims]
                         /\ total_claims' = FSum(samples)
                         /\ trace' = Append(trace,
                               [num_claims |-> num_claims, samples |-> samples])
                 /\ pc' = "net"
                 /\ calls' = [calls EXCEPT !.rvs = @ + 1]
                 /\ UNCHANGED <<exc, ret, log>>
       ELSE /\ total_claims' = Zero
            /\ trace' = Append(trace,
                               [num_claims |-> num_claims, samples |-> <<>>])
            /\ pc' = "net"
            /\ UNCHANGED <<exc, ret, log, rng, calls>>
    /\ UNCHANGED <<params, i, results, num_claims, investment_income,
                   expenses, net_outcome, run, first>>

\* lines 57-60: income, expenses, net outcome; results.append(net_outcome)
NetOutcome ==
    /\ pc = "net"
    /\ LET income == FMul(params.prem, params.invest_return)
           exps == FMul(params.prem, params.exp_rate)
           net == NetOutcomeOf(params.prem, income, total_claims, exps)
       IN /\ investment_income' = income
          /\ expenses' = exps
          /\ net_outcome' = net
          /\ results' = Append(results, net)
    /\ i' = i + 1
    /\ pc' = "loop"
    /\ UNCHANGED <<params, num_claims, total_claims, ret, exc, log, rng, run,
                   first, trace, calls>>

\* line 61: the loop is exhausted; return np.array(results)
Return ==
    /\ pc = "loop"
    /\ ~LoopContinues(i, params.num_simulations)
    /\ ret' = [returned |-> TRUE, value |-> results]
    /\ pc' = "returned"
    /\ UNCHANGED <<params, i, results, locals, exc, log, rng, run, first,
                   trace, calls>>

\* The caller reseeds the generator with the same seed and repeats the call
\* with the same arguments: a new frame, the generator rewound.
Rerun ==
    /\ pc \in {"returned", "raised"}
    /\ run = 1
    /\ run' = 2
    /\ first' = [pc |-> pc, ret |-> ret, exc |-> exc]
    /\ rng' = [rng EXCEPT !.pos = 0]
    /\ pc' = "entry"
    /\ i' = 0
    /\ num_claims' = 0
    /\ total_claims' = Zero
    /\ investment_income' = Zero
    /\ expenses' = Zero
    /\ net_outcome' = Zero
    /\ ret' = NoRet
    /\ exc' = NoExc
    /\ trace' = <<>>
    /\ calls' = NoCalls
    /\ UNCHANGED <<params, results, log>>

Next ==
    \/ Validate
    \/ DrawPoisson
    \/ DrawSeverity
    \/ NetOutcome
    \/ Return
    \/ Rerun

Spec == Init /\ [][Next]_vars

\* ------------------------------------------------------------------ claims
\* The ranges the parameters are documented to have.
ValidTuple(p) ==
    /\ FLe(Zero, p.freq_rate)
    /\ FLt(Zero, p.prem)
    /\ FLe(Zero, p.invest_return) /\ FLe(p.invest_return, One)
    /\ FLe(Zero, p.exp_rate) /\ FLe(p.exp_rate, One)

\* The message of the first documented range that p violates.
FirstViolation(p) ==
    IF ~FLe(Zero, p.freq_rate) THEN MsgFreq
    ELSE IF ~FLt(Zero, p.prem) THEN MsgPrem
    ELSE IF ~(FLe(Zero, p.invest_return) /\ FLe(p.invest_return, One))
         THEN MsgInvest
    ELSE MsgExp

Finished == pc \in {"returned", "raised"}
DrawFailed == calls.failed \in {"poisson", "rvs"}
ValidatorMsgs == {MsgFreq, MsgPrem, MsgInvest, MsgExp}

\* the outcome of a trial with no claims
ZeroClaimsOutcome(p) ==
    FSub(FAdd(p.prem, FMul(p.prem, p.invest_return)), FMul(p.prem, p.exp_rate))

RECURSIVE Tenths(_)
\* the samples of a trial added up as plain numbers
Tenths(samples) ==
    IF samples = <<>> THEN 0 ELSE samples[1].v + Tenths(Tail(samples))

RECURSIVE ClaimsIn(_)
\* the number of severity samples the trials of a history took
ClaimsIn(h) == IF h = <<>> THEN 0 ELSE Len(h[1].samples) + ClaimsIn(Tail(h))

RvsCallsIn(h) == Cardinality({t \in 1 .. Len(h) : h[t].num_claims > 0})

\* C1: once validate_parameters has run, it has succeeded exactly when
\* freq_rate >= 0, prem > 0, 0 <= invest_return <= 1 and 0 <= exp_rate <= 1,
\* and otherwise the error is that of the first violated range in the order
\* frequency rate, premium, investment return, expense rate.
C1_ValidatesExactlyTheRanges ==
    (calls.validate > 0 /\ calls.failed \in {"none", "validate"}) =>
        IF ValidTuple(params)
        THEN calls.failed = "none" /\ exc = NoExc
        ELSE calls.failed = "validate" /\ exc = ValueError(FirstViolation(params))

\* C2: the validator is called exactly once per call and before anything
\* else; when it fails the call has raised, no Poisson or lognormal draw was
\* made, no trial was produced and nothing is returned.
C2_ValidatedOnceBeforeAnyDraw ==
    /\ pc = "entry" => calls = NoCalls /\ rng.pos = 0 /\ trace = <<>>
    /\ pc # "entry" => calls.validate = 1
    /\ (pc # "entry" /\ validate_parameters(params.freq_rate, params.prem,
                          params.invest_return, params.exp_rate) # NoExc) =>
          /\ pc = "raised"
          /\ exc # NoExc
          /\ ~ret.returned
          /\ calls.poisson = 0 /\ calls.rvs = 0 /\ rng.pos = 0
          /\ trace = <<>> /\ i = 0

C2_Witness ==
    /\ pc = "raised" /\ calls.failed = "validate" /\ calls.validate = 1
    /\ params.num_simulations > 0

\* C3: during the loop the list holds one outcome per completed iteration,
\* and a call with valid parameters and num_simulations > 0 that returns,
\* returns exactly num_simulations outcomes, the t-th being that of trial t.
C3_OneOutcomePerTrial ==
    /\ pc \in {"loop", "claims", "net"} => Len(results) = i
    /\ (pc = "returned" /\ ValidTuple(params) /\ params.num_simulations > 0) =>
          /\ Len(ret.value) = params.num_simulations
          /\ Len(trace) = params.num_simulations
          /\ calls.poisson = params.num_simulations
          /\ \A t \in 1 .. Len(ret.value) :
                ret.value[t] = FSub(ZeroClaimsOutcome(params),
                                    F(Tenths(trace[t].samples)))

C3_Witness ==
    /\ pc = "returned" /\ ValidTuple(params)
    /\ params.num_simulations = MaxSims /\ Len(ret.value) = MaxSims
    /\ ret.value[1] # ret.value[2]

\* C4 (as claimed): a call with num_simulations <= 0 never returns a
\* sequence; it is rejected with an error.
C4_RejectsNonPositiveCount ==
    params.num_simulations <= 0 => pc # "returned"

\* C4 (amended): a call with num_simulations <= 0 is not rejected: if the
\* validator passes it returns the empty sequence without any draw, and the
\* only error it can end in is the validator's.
C4_NonPositiveCountReturnsEmpty ==
    params.num_simulations <= 0 =>
        /\ pc \notin {"claims", "net"}
        /\ calls.poisson = 0 /\ calls.rvs = 0 /\ rng.pos = 0 /\ trace = <<>>
        /\ pc = "raised" => calls.failed = "validate"
        /\ pc = "returned" => ret.value = <<>> /\ exc = NoExc

C4_Witness ==
    /\ pc = "returned" /\ params.num_simulations = 0 /\ ret.value = <<>>
    /\ ValidTuple(params)

\* C5: with valid parameters every outcome returned is at most
\* prem + prem*invest_return - prem*exp_rate, the zero-claims outcome.
C5_BoundedByZeroClaims ==
    (pc = "returned" /\ ValidTuple(params)) =>
        \A t \in 1 .. Len(ret.value) :
            FLe(ret.value[t], ZeroClaimsOutcome(params))

C5_Witness ==
    /\ pc = "returned" /\ ValidTuple(params)
    /\ \E t \in 1 .. Len(ret.value) : ret.value[t] = ZeroClaimsOutcome(params)
    /\ \E t \in 1 .. Len(ret.value) : FLt(ret.value[t], Zero)

\* C6: with freq_rate = 0 no severity sample is ever drawn, total_claims is
\* 0 in every trial and every outcome returned is
\* prem * (1 + invest_return - exp_rate).
C6_ZeroFrequencyIsDeterministic ==
    params.freq_rate = Zero =>
        /\ calls.rvs = 0
        /\ num_claims = 0 /\ total_claims = Zero
        /\ \A t \in 1 .. Len(trace) :
              trace[t].num_claims = 0 /\ trace[t].samples = <<>>
        /\ pc = "returned" =>
              \A t \in 1 .. Len(ret.value) :
                  ret.value[t] = FMul(params.prem,
                      FSub(FAdd(One, params.invest_return), params.exp_rate))

C6_Witness ==
    /\ pc = "returned" /\ params.freq_rate = Zero /\ Len(ret.value) = MaxSims
    /\ \E k \in 1 .. Len(rng.stream) : rng.stream[k] > 0
    /\ params.invest_return = F(5) /\ params.exp_rate = One

\* C7: when a draw fails in trial k the call has raised and nothing is
\* returned; the failed call is not repeated (k Poisson calls, one rvs call
\* per earlier trial with claims, plus the failed one) and no trial beyond
\* the k-1 completed ones is run.
C7_FailedDrawAbortsTheCall ==
    DrawFailed =>
        /\ pc = "raised" /\ exc # NoExc /\ ~ret.returned
        /\ calls.poisson = i + 1
        /\ Len(trace) = i /\ Len(results) = i
        /\ calls.rvs = RvsCallsIn(trace) + (IF calls.failed = "rvs" THEN 1 ELSE 0)
        /\ rng.pos = i + ClaimsIn(trace)
                       + (IF calls.failed = "rvs" THEN 1 ELSE 0)

C7_Witness ==
    /\ pc = "raised" /\ calls.failed = "rvs" /\ i >= 1 /\ results # <<>>

\* C8 (as claimed): an error raised while drawing reaches the caller as a
\* SimulationError wrapping its cause, a kind other than the validator's.
C8_DrawErrorIsSimulationError ==
    DrawFailed =>
        /\ exc.type = "SimulationError"
        /\ exc.cause # "none"
        /\ exc.type # ValueError(MsgFreq).type

\* C8 (amended): an error raised while drawing reaches the caller as the
\* sampler's own exception, re-raised unwrapped: a ValueError, the kind the
\* validator raises too, told apart from it by its message only.
C8_DrawErrorIsReraisedAsIs ==
    /\ DrawFailed =>
          /\ exc = ValueError(IF calls.failed = "poisson" THEN MsgLam
                              ELSE MsgDomain)
          /\ exc.msg \notin ValidatorMsgs
    /\ calls.failed = "validate" =>
          exc.type = "ValueError" /\ exc.cause = "none"
          /\ exc.msg \in ValidatorMsgs

C8_Witness ==
    pc = "raised" /\ calls.failed = "rvs" /\ exc = ValueError(MsgDomain)

\* C9: a call repeated with the same arguments after reseeding the
\* generator with the same seed ends as the first one did, with the same
\* sequence of outcomes.
C9_SameSeedSameOutcomes ==
    (run = 2 /\ Finished) =>
        /\ pc = first.pc
        /\ ret = first.ret
        /\ exc = first.exc

C9_Witness ==
    /\ run = 2 /\ pc = "returned" /\ Len(ret.value) = MaxSims
    /\ ret.value[1] # ret.value[2]

\* C10: every trial draws exactly num_claims severity samples (none when
\* num_claims = 0), total_claims is their sum, the outcome appended is
\* prem + prem*invest_return - total_claims - prem*exp_rate, and income and
\* expenses are the same in every trial.
C10_TrialArithmetic ==
    /\ \A t \in 1 .. Len(trace) :
          /\ Len(trace[t].samples) = trace[t].num_claims
          /\ t <= i =>
                results[t] =
                    FSub(FSub(FAdd(params.prem,
                                   FMul(params.prem, params.invest_return)),
                              F(Tenths(trace[t].samples))),
                         FMul(params.prem, params.exp_rate))
    /\ pc = "net" => total_claims = F(Tenths(trace[Len(trace)].samples))
    /\ pc \in {"loop", "net", "returned"} =>
          rng.pos = Len(trace) + ClaimsIn(trace)
    /\ i >= 1 =>
          /\ investment_income = FMul(params.prem, params.invest_return)
          /\ expenses = FMul(params.prem, params.exp_rate)

C10_Witness ==
    /\ pc = "returned" /\ Len(trace) = MaxSims
    /\ trace[1].num_claims = MaxClaims /\ trace[2].num_claims = 0
    /\ trace[1].samples[1] # trace[1].samples[2]
    /\ ~params.prem.nan
====
